---- MODULE Spec2Model ----
(***************************************************************************)
(* Model of ConversationCache (src/ai-agent/storage.py): the pending       *)
(* buffer, the pair counter, the cached token, and the remote history      *)
(* store the cache talks to.  One action per public operation; every       *)
(* remote answer is an input of the action.                                *)
(***************************************************************************)
EXTENDS Integers, Sequences, FiniteSets, TLC

\* ---------------------------------------------------------------- bounds
MaxMsgs == 4        \* messages recorded in one behaviour
MaxPriorPairs == 2  \* pairs the store holds from earlier sessions
MaxThreshold == 3   \* largest pairs_to_flush a cache is constructed with
MaxN == 3           \* largest n_pairs asked of get_last_n_pairs
MaxLost == 1        \* batch posts whose response is lost in one behaviour
MaxEvents == 3      \* conversation events emitted in one behaviour
MaxTicks == 2       \* clock advances in one behaviour

\* ------------------------------------------------------ program constants
TokenLifetime == 3600
SenderUser == 0
SenderAgent == 1

TickStep == TokenLifetime \div 2
NoToken == "none"
Tokens == {"t1", "t2"}

VARIABLES
    pairs_to_flush,    \* self.pairs_to_flush
    clock,             \* datetime.now(timezone.utc), in creation instants
    pending,           \* self._pending_messages
    pair_count,        \* self._pair_count
    token,             \* self._token
    token_expiry,      \* self._token_expiry
    now,               \* time.time()
    remote,            \* messages held by the remote store, in arrival order
    recorded,          \* every message recorded so far (history)
    lost_responses,    \* batch posts stored but not acknowledged (history)
    tasks,             \* the handler tasks of the session driver, in creation order
    last               \* the last operation: its inputs, remote calls, result

vars == <<pairs_to_flush, clock, pending, pair_count, token, token_expiry, now,
          remote, recorded, lost_responses, tasks, last>>

\* ----------------------------------------------------------- python lists
\* s[-k:] for k >= 0.  -0 is 0, so s[-0:] is the whole list.
PySliceLast(s, k) ==
    IF k = 0 \/ k >= Len(s) THEN s
    ELSE SubSeq(s, Len(s) - k + 1, Len(s))

\* the last k entries of s, for every k >= 0 (the mathematical tail)
LastK(s, k) ==
    IF k >= Len(s) THEN s ELSE SubSeq(s, Len(s) - k + 1, Len(s))

RECURSIVE InsertByCreatedAt(_, _)
InsertByCreatedAt(sorted, m) ==
    IF sorted = <<>> THEN <<m>>
    ELSE IF sorted[Len(sorted)].createdAt <= m.createdAt
         THEN Append(sorted, m)
         ELSE Append(InsertByCreatedAt(SubSeq(sorted, 1, Len(sorted) - 1), m),
                     sorted[Len(sorted)])

\* sorted(messages, key=createdAt): stable, ascending
RECURSIVE SortByCreatedAt(_)
SortByCreatedAt(msgs) ==
    IF msgs = <<>> THEN <<>>
    ELSE InsertByCreatedAt(SortByCreatedAt(SubSeq(msgs, 1, Len(msgs) - 1)),
                           msgs[Len(msgs)])

\* --------------------------------------------------------- pair extraction
\* variant: the scan always advances by two, so it never realigns
RECURSIVE ExtractFrom_no_realign(_, _)
ExtractFrom_no_realign(msgs, i) ==
    IF i + 1 > Len(msgs) THEN <<>>
    ELSE IF msgs[i].senderType = SenderUser /\ msgs[i + 1].senderType = SenderAgent
         THEN <<[user |-> msgs[i].content, bot |-> msgs[i + 1].content]>>
              \o ExtractFrom_no_realign(msgs, i + 2)
         ELSE ExtractFrom_no_realign(msgs, i + 2)

\* variant: a user turn is paired with whatever message follows it
RECURSIVE ExtractFrom_any_reply(_, _)
ExtractFrom_any_reply(msgs, i) ==
    IF i + 1 > Len(msgs) THEN <<>>
    ELSE IF msgs[i].senderType = SenderUser
         THEN <<[user |-> msgs[i].content, bot |-> msgs[i + 1].content]>>
              \o ExtractFrom_any_reply(msgs, i + 2)
         ELSE ExtractFrom_any_reply(msgs, i + 1)

RECURSIVE ExtractFrom(_, _)
ExtractFrom(msgs, i) ==
    IF i + 1 > Len(msgs) THEN <<>>
    ELSE IF msgs[i].senderType = SenderUser /\ msgs[i + 1].senderType = SenderAgent
         THEN <<[user |-> msgs[i].content, bot |-> msgs[i + 1].content]>>
              \o ExtractFrom(msgs, i + 2)
         ELSE ExtractFrom(msgs, i + 1)

extract_pairs_from_messages(msgs) == ExtractFrom(msgs, 1)

\* ------------------------------------------------------------ remote store
\* GET /api/conversation-history?limit=L: the L most recent messages by
\* creation time, ascending.
ServerHistory(stored, limit) == LastK(SortByCreatedAt(stored), limit)

Call(kind, status, tok, body, limit) ==
    [kind |-> kind, status |-> status, token |-> tok, body |-> body, limit |-> limit]

\* answers of the account endpoints to one _login_if_needed:
\* <<first login, register, second login, token handed out>>
AuthEnvs ==
    {<<l, "unused", "unused", t>> : l \in {"ok"}, t \in Tokens}
    \cup {<<l, "unused", "unused", NoToken>> : l \in {"error", "no_token"}}
    \cup {<<"unauthorized", r, "unused", NoToken>> : r \in {"rejected", "error"}}
    \cup {<<"unauthorized", "ok", "ok", t>> : t \in Tokens}
    \cup {<<"unauthorized", "ok", l, NoToken>> : l \in {"unauthorized", "error", "no_token"}}

NoAuth == <<"unused", "unused", "unused", NoToken>>

\* variant: the expiry comparison is inverted
TokenValid_expiry_inverted(tok, exp, t) == tok # NoToken /\ t > exp

TokenValid(tok, exp, t) == tok # NoToken /\ t < exp

\* the account answers an operation can meet: none when the token is reused
AuthChoices(envs, tok, exp, t) == IF TokenValid(tok, exp, t) THEN {NoAuth} ELSE envs

\* the account answers of a store that knows the identity and is either
\* reachable or not
PlainAuthEnvs == {<<"ok", "unused", "unused", "t1">>,
                  <<"error", "unused", "unused", NoToken>>}

\* variant: every failed first login, not only a 401, leads to a registration
login_if_needed_registers_on_any_failure(tok, exp, t, env) ==
    IF TokenValid(tok, exp, t)
    THEN [token |-> tok, expiry |-> exp, calls |-> <<>>, raised |-> FALSE]
    ELSE LET first == Call("login", env[1], NoToken, <<>>, 0)
             reg == Call("register", env[2], NoToken, <<>>, 0)
             second == Call("login", env[3], NoToken, <<>>, 0)
             fail(cs) == [token |-> tok, expiry |-> exp, calls |-> cs, raised |-> TRUE]
             done(cs) == [token |-> env[4], expiry |-> t + TokenLifetime,
                          calls |-> cs, raised |-> FALSE]
         IN  IF env[1] # "ok"
             THEN IF env[2] = "ok"
                  THEN IF env[3] = "ok" THEN done(<<first, reg, second>>)
                       ELSE fail(<<first, reg, second>>)
                  ELSE fail(<<first, reg>>)
             ELSE done(<<first>>)

\* _login_if_needed: result is the token fields, the calls made and whether
\* it raised.
login_if_needed(tok, exp, t, env) ==
    IF TokenValid(tok, exp, t)
    THEN [token |-> tok, expiry |-> exp, calls |-> <<>>, raised |-> FALSE]
    ELSE LET first == Call("login", env[1], NoToken, <<>>, 0)
             reg == Call("register", env[2], NoToken, <<>>, 0)
             second == Call("login", env[3], NoToken, <<>>, 0)
             fail(cs) == [token |-> tok, expiry |-> exp, calls |-> cs, raised |-> TRUE]
             done(cs) == [token |-> env[4], expiry |-> t + TokenLifetime,
                          calls |-> cs, raised |-> FALSE]
         IN  IF env[1] = "unauthorized"
             THEN IF env[2] = "ok"
                  THEN IF env[3] = "ok" THEN done(<<first, reg, second>>)
                       ELSE fail(<<first, reg, second>>)
                  ELSE fail(<<first, reg>>)
             ELSE IF env[1] = "ok" THEN done(<<first>>)
                  ELSE fail(<<first>>)

\* _auth_headers is login_if_needed followed by reading self._token
auth_headers(tok, exp, t, env) == login_if_needed(tok, exp, t, env)

\* ------------------------------------------------------------- API calls
\* answers of POST /api/messages: "ok" stores the batch and acknowledges it,
\* "error" is a network error, timeout or non-2xx before anything is stored,
\* "applied_lost" stores the batch but the response is lost or unreadable.
PostAnswers == {"ok", "error", "applied_lost"}

AnsweredOrFailed == {"ok", "error"}

PostChoices(answers, lost) ==
    IF lost < MaxLost THEN answers ELSE answers \ {"applied_lost"}

GetChoices == {"ok", "error"}

\* the store creates one record per message of an applied batch
StoreBatch(stored, batch) == stored \o batch

post_messages(messages, tok, exp, stored, t, env, postAns) ==
    IF messages = <<>>
    THEN [ret |-> <<>>, raised |-> FALSE, calls |-> <<>>,
          token |-> tok, expiry |-> exp, remote |-> stored]
    ELSE LET auth == auth_headers(tok, exp, t, env)
             post == Call("post", postAns, auth.token, messages, 0)
         IN  IF auth.raised
             THEN [ret |-> <<>>, raised |-> TRUE, calls |-> auth.calls,
                   token |-> auth.token, expiry |-> auth.expiry, remote |-> stored]
             ELSE [ret |-> IF postAns = "ok" THEN messages ELSE <<>>,
                   raised |-> postAns # "ok",
                   calls |-> Append(auth.calls, post),
                   token |-> auth.token, expiry |-> auth.expiry,
                   remote |-> IF postAns = "error" THEN stored
                              ELSE StoreBatch(stored, messages)]

get_history_messages(threshold, tok, exp, stored, t, env, getAns) ==
    LET auth == auth_headers(tok, exp, t, env)
        limit == 2 * threshold
        get == Call("get", getAns, auth.token, <<>>, limit)
    IN  IF auth.raised
        THEN [ret |-> <<>>, raised |-> TRUE, calls |-> auth.calls,
              token |-> auth.token, expiry |-> auth.expiry]
        ELSE [ret |-> IF getAns = "ok" THEN ServerHistory(stored, limit) ELSE <<>>,
              raised |-> getAns # "ok",
              calls |-> Append(auth.calls, get),
              token |-> auth.token, expiry |-> auth.expiry]

\* -------------------------------------------------------- cache operations
Message(sender, content, createdAt) ==
    [senderType |-> sender, content |-> content, createdAt |-> createdAt]

\* variant: the buffer is cleared whether or not the post raised
flush_clears_on_failure(pend, pc, tok, exp, stored, t, env, postAns) ==
    IF pend = <<>>
    THEN [pending |-> pend, pair_count |-> pc, token |-> tok, expiry |-> exp,
          remote |-> stored, calls |-> <<>>, ret |-> <<>>]
    ELSE LET created == post_messages(pend, tok, exp, stored, t, env, postAns)
         IN  [pending |-> <<>>, pair_count |-> 0,
              token |-> created.token, expiry |-> created.expiry,
              remote |-> created.remote, calls |-> created.calls,
              ret |-> created.ret]

\* variant: a successful flush forgets to reset the pair counter
flush_keeps_pair_count(pend, pc, tok, exp, stored, t, env, postAns) ==
    IF pend = <<>>
    THEN [pending |-> pend, pair_count |-> pc, token |-> tok, expiry |-> exp,
          remote |-> stored, calls |-> <<>>, ret |-> <<>>]
    ELSE LET created == post_messages(pend, tok, exp, stored, t, env, postAns)
         IN  [pending |-> IF created.raised THEN pend ELSE <<>>,
              pair_count |-> pc,
              token |-> created.token, expiry |-> created.expiry,
              remote |-> created.remote, calls |-> created.calls,
              ret |-> created.ret]

\* variant: a failed flush keeps the buffer but resets the pair counter
flush_resets_counter_on_failure(pend, pc, tok, exp, stored, t, env, postAns) ==
    IF pend = <<>>
    THEN [pending |-> pend, pair_count |-> pc, token |-> tok, expiry |-> exp,
          remote |-> stored, calls |-> <<>>, ret |-> <<>>]
    ELSE LET created == post_messages(pend, tok, exp, stored, t, env, postAns)
         IN  [pending |-> IF created.raised THEN pend ELSE <<>>,
              pair_count |-> 0,
              token |-> created.token, expiry |-> created.expiry,
              remote |-> created.remote, calls |-> created.calls,
              ret |-> created.ret]

\* variant: the request headers are built before the buffer is looked at
flush_authenticates_first(pend, pc, tok, exp, stored, t, env, postAns) ==
    LET auth == auth_headers(tok, exp, t, env)
        created == post_messages(pend, tok, exp, stored, t, env, postAns)
    IN  IF pend = <<>>
        THEN [pending |-> pend, pair_count |-> pc,
              token |-> auth.token, expiry |-> auth.expiry,
              remote |-> stored, calls |-> auth.calls, ret |-> <<>>]
        ELSE IF created.raised
             THEN [pending |-> pend, pair_count |-> pc,
                   token |-> created.token, expiry |-> created.expiry,
                   remote |-> created.remote, calls |-> created.calls, ret |-> <<>>]
             ELSE [pending |-> <<>>, pair_count |-> 0,
                   token |-> created.token, expiry |-> created.expiry,
                   remote |-> created.remote, calls |-> created.calls,
                   ret |-> created.ret]

\* variant: the buffer is emptied before the batch is posted; the counter is
\* reset after the post returned
flush_clears_before_post(pend, pc, tok, exp, stored, t, env, postAns) ==
    IF pend = <<>>
    THEN [pending |-> pend, pair_count |-> pc, token |-> tok, expiry |-> exp,
          remote |-> stored, calls |-> <<>>, ret |-> <<>>]
    ELSE LET created == post_messages(pend, tok, exp, stored, t, env, postAns)
         IN  [pending |-> <<>>,
              pair_count |-> IF created.raised THEN pc ELSE 0,
              token |-> created.token, expiry |-> created.expiry,
              remote |-> created.remote, calls |-> created.calls,
              ret |-> created.ret]

\* variant: a failed flush sets the counter to the complete pairs it finds in
\* the retained buffer
flush_rescans_pairs_on_failure(pend, pc, tok, exp, stored, t, env, postAns) ==
    IF pend = <<>>
    THEN [pending |-> pend, pair_count |-> pc, token |-> tok, expiry |-> exp,
          remote |-> stored, calls |-> <<>>, ret |-> <<>>]
    ELSE LET created == post_messages(pend, tok, exp, stored, t, env, postAns)
         IN  IF created.raised
             THEN [pending |-> pend,
                   pair_count |-> Len(extract_pairs_from_messages(pend)),
                   token |-> created.token, expiry |-> created.expiry,
                   remote |-> created.remote, calls |-> created.calls, ret |-> <<>>]
             ELSE [pending |-> <<>>, pair_count |-> 0,
                   token |-> created.token, expiry |-> created.expiry,
                   remote |-> created.remote, calls |-> created.calls,
                   ret |-> created.ret]

\* flush(): every exception of post_messages is caught
flush(pend, pc, tok, exp, stored, t, env, postAns) ==
    IF pend = <<>>
    THEN [pending |-> pend, pair_count |-> pc, token |-> tok, expiry |-> exp,
          remote |-> stored, calls |-> <<>>, ret |-> <<>>]
    ELSE LET created == post_messages(pend, tok, exp, stored, t, env, postAns)
         IN  IF created.raised
             THEN [pending |-> pend, pair_count |-> pc,
                   token |-> created.token, expiry |-> created.expiry,
                   remote |-> created.remote, calls |-> created.calls, ret |-> <<>>]
             ELSE [pending |-> <<>>, pair_count |-> 0,
                   token |-> created.token, expiry |-> created.expiry,
                   remote |-> created.remote, calls |-> created.calls,
                   ret |-> created.ret]

\* variant: the flush is triggered one pair early
flush_threshold_off_by_one(pc, threshold) == pc + 1 >= threshold

\* variant: the flush is triggered only above the threshold
flush_threshold_strict(pc, threshold) == pc > threshold

flush_threshold_reached(pc, threshold) == pc >= threshold

get_last_db_pairs(needed, threshold, tok, exp, stored, t, env, getAns) ==
    LET h == get_history_messages(threshold, tok, exp, stored, t, env, getAns)
        messages_sorted == SortByCreatedAt(h.ret)
        tail == PySliceLast(messages_sorted, 2 * needed)
    IN  [ret |-> IF h.raised \/ h.ret = <<>> THEN <<>>
                 ELSE extract_pairs_from_messages(tail),
         raised |-> h.raised, calls |-> h.calls,
         token |-> h.token, expiry |-> h.expiry]

get_last_n_pairs(n, pend, threshold, tok, exp, stored, t, env, getAns) ==
    LET cache_pairs == extract_pairs_from_messages(pend)
        num_cache_pairs == Len(cache_pairs)
        needed == n - num_cache_pairs
        db == get_last_db_pairs(needed, threshold, tok, exp, stored, t, env, getAns)
        combined == db.ret \o cache_pairs
    IN  IF num_cache_pairs >= n
        THEN [ret |-> PySliceLast(cache_pairs, n), raised |-> FALSE,
              calls |-> <<>>, token |-> tok, expiry |-> exp]
        ELSE [ret |-> IF db.raised THEN <<>> ELSE PySliceLast(combined, n),
              raised |-> db.raised, calls |-> db.calls,
              token |-> db.token, expiry |-> db.expiry]

\* ------------------------------------------------------------------ state
\* the history an earlier session of the same identity left in the store:
\* k complete pairs, created before this session
RECURSIVE PriorHistory(_)
PriorHistory(k) ==
    IF k = 0 THEN <<>>
    ELSE PriorHistory(k - 1) \o <<Message(SenderUser, 2 * k - 1, 2 * k - 1),
                                  Message(SenderAgent, 2 * k, 2 * k)>>

Init ==
    /\ pairs_to_flush \in 1..MaxThreshold
    /\ pending = <<>>
    /\ pair_count = 0
    /\ token = NoToken
    /\ token_expiry = 0
    /\ now = TickStep
    /\ \E k \in 0..MaxPriorPairs : remote = PriorHistory(k)
    /\ clock = Len(remote)
    /\ recorded = <<>>
    /\ lost_responses = 0
    /\ tasks = <<>>
    /\ last = [op |-> "init", n |-> 0, ret |-> <<>>, raised |-> FALSE,
               calls |-> <<>>, flushes |-> 0, implicit |-> 0, explicit |-> FALSE,
               prePending |-> <<>>, prePairCount |-> 0, preRemote |-> remote,
               preToken |-> NoToken, streak |-> 0, preStreak |-> 0,
               preExpiry |-> 0, at |-> now, failed |-> FALSE, preFailed |-> FALSE,
               thresholdFailed |-> FALSE]

Lost(postAns) == IF postAns = "applied_lost" THEN 1 ELSE 0

\* each recorded utterance is a new text with a later creation time
NextStamp == clock + 1

\* last.failed: the operation called flush() and the buffer was retained;
\* last.preFailed: the operation before it did.
\* last.thresholdFailed: a flush triggered by the threshold has failed and no
\* flush has succeeded since.
\* last.streak: 1 after a record-user-turn, 2 after a record-agent-turn that
\* directly followed a record-user-turn, 0 otherwise
add_user_message_call(maxMsgs) ==
    /\ Len(recorded) < maxMsgs
    /\ LET dto == Message(SenderUser, NextStamp, NextStamp)
       IN  /\ pending' = Append(pending, dto)
           /\ recorded' = Append(recorded, dto)
           /\ clock' = NextStamp
           /\ last' = [last EXCEPT !.op = "add_user_message", !.n = 0,
                          !.ret = <<>>, !.raised = FALSE, !.calls = <<>>,
                          !.flushes = 0,
                          !.prePending = pending, !.prePairCount = pair_count,
                          !.preRemote = remote, !.preToken = token,
                          !.streak = 1, !.preStreak = last.streak,
                          !.preExpiry = token_expiry, !.at = now,
                          !.failed = FALSE, !.preFailed = last.failed]
    /\ UNCHANGED <<pairs_to_flush, pair_count, token, token_expiry, now, remote,
                   lost_responses>>

add_agent_message_call(maxMsgs, envs, answers) ==
    /\ Len(recorded) < maxMsgs
    /\ LET dto == Message(SenderAgent, NextStamp, NextStamp)
           appended == Append(pending, dto)
           counted == pair_count + 1
           reached == flush_threshold_reached(counted, pairs_to_flush)
       IN  \E env \in IF reached THEN AuthChoices(envs, token, token_expiry, now)
                      ELSE {NoAuth} :
           \E postAns \in IF reached THEN PostChoices(answers, lost_responses) ELSE {"unused"} :
             LET f == IF reached
                      THEN flush(appended, counted, token, token_expiry, remote,
                                 now, env, postAns)
                      ELSE [pending |-> appended, pair_count |-> counted,
                            token |-> token, expiry |-> token_expiry,
                            remote |-> remote, calls |-> <<>>, ret |-> <<>>]
             IN  /\ pending' = f.pending
                 /\ pair_count' = f.pair_count
                 /\ token' = f.token
                 /\ token_expiry' = f.expiry
                 /\ remote' = f.remote
                 /\ lost_responses' = lost_responses + Lost(postAns)
                 /\ recorded' = Append(recorded, dto)
                 /\ clock' = NextStamp
                 /\ last' = [last EXCEPT !.op = "add_agent_message", !.n = 0,
                                !.ret = <<>>, !.raised = FALSE, !.calls = f.calls,
                                !.flushes = IF reached THEN 1 ELSE 0,
                                !.implicit = IF reached THEN @ + 1 ELSE @,
                                !.prePending = pending, !.prePairCount = pair_count,
                                !.preRemote = remote, !.preToken = token,
                                !.streak = IF last.streak = 1 THEN 2 ELSE 0,
                                !.preStreak = last.streak,
                                !.preExpiry = token_expiry, !.at = now,
                                !.failed = (reached /\ f.pending # <<>>),
                                !.preFailed = last.failed,
                                !.thresholdFailed =
                                    IF reached THEN f.pending # <<>> ELSE @]
    /\ UNCHANGED <<pairs_to_flush, now>>

Flush_call(envs, answers) ==
    \E env \in IF pending = <<>> THEN {NoAuth}
               ELSE AuthChoices(envs, token, token_expiry, now) :
    \E postAns \in IF pending = <<>> THEN {"unused"} ELSE PostChoices(answers, lost_responses) :
      LET f == flush(pending, pair_count, token, token_expiry, remote, now, env, postAns)
      IN  /\ pending' = f.pending
          /\ pair_count' = f.pair_count
          /\ token' = f.token
          /\ token_expiry' = f.expiry
          /\ remote' = f.remote
          /\ lost_responses' = lost_responses + Lost(postAns)
          /\ last' = [last EXCEPT !.op = "flush", !.n = 0,
                         !.ret = f.ret, !.raised = FALSE, !.calls = f.calls,
                         !.flushes = 1, !.explicit = TRUE,
                         !.prePending = pending, !.prePairCount = pair_count,
                         !.preRemote = remote, !.preToken = token,
                         !.streak = 0, !.preStreak = last.streak,
                         !.preExpiry = token_expiry, !.at = now,
                         !.failed = (f.pending # <<>>),
                         !.preFailed = last.failed,
                         !.thresholdFailed =
                             IF pending # <<>> /\ f.pending = <<>> THEN FALSE ELSE @]
          /\ UNCHANGED <<pairs_to_flush, clock, now, recorded>>

GetLastNPairs_call(maxN, envs) ==
    \E n \in 0..maxN :
    LET local == Len(extract_pairs_from_messages(pending))
    IN  \E env \in IF local >= n THEN {NoAuth}
                   ELSE AuthChoices(envs, token, token_expiry, now) :
        \E getAns \in IF local >= n \/ login_if_needed(token, token_expiry, now, env).raised
                      THEN {"unused"} ELSE GetChoices :
          LET g == get_last_n_pairs(n, pending, pairs_to_flush, token, token_expiry,
                                    remote, now, env, getAns)
          IN  /\ token' = g.token
              /\ token_expiry' = g.expiry
              /\ last' = [last EXCEPT !.op = "get_last_n_pairs", !.n = n,
                             !.ret = g.ret, !.raised = g.raised, !.calls = g.calls,
                             !.flushes = 0,
                             !.prePending = pending, !.prePairCount = pair_count,
                             !.preRemote = remote, !.preToken = token,
                             !.streak = 0, !.preStreak = last.streak,
                             !.preExpiry = token_expiry, !.at = now,
                             !.failed = FALSE, !.preFailed = last.failed]
              /\ UNCHANGED <<pairs_to_flush, clock, pending, pair_count, now, remote,
                              recorded, lost_responses>>

\* time passes between operations
Tick(maxTicks) ==
    /\ now < TickStep * (maxTicks + 1)
    /\ now' = now + TickStep
    /\ UNCHANGED <<pairs_to_flush, clock, pending, pair_count, token,
                   token_expiry, remote, recorded, lost_responses, tasks, last>>

\* the operations called on the cache directly, no handler task involved
add_user_message(maxMsgs) ==
    add_user_message_call(maxMsgs) /\ UNCHANGED tasks

add_agent_message(maxMsgs, envs, answers) ==
    add_agent_message_call(maxMsgs, envs, answers) /\ UNCHANGED tasks

Flush(envs, answers) ==
    Flush_call(envs, answers) /\ UNCHANGED tasks

\* variant: a failed history read discards the pending buffer
GetLastNPairs_drops_buffer_on_failure(maxN, envs) ==
    \E n \in 0..maxN :
    LET local == Len(extract_pairs_from_messages(pending))
    IN  \E env \in IF local >= n THEN {NoAuth}
                   ELSE AuthChoices(envs, token, token_expiry, now) :
        \E getAns \in IF local >= n \/ login_if_needed(token, token_expiry, now, env).raised
                      THEN {"unused"} ELSE GetChoices :
          LET g == get_last_n_pairs(n, pending, pairs_to_flush, token, token_expiry,
                                    remote, now, env, getAns)
          IN  /\ token' = g.token
              /\ token_expiry' = g.expiry
              /\ last' = [last EXCEPT !.op = "get_last_n_pairs", !.n = n,
                             !.ret = g.ret, !.raised = g.raised, !.calls = g.calls,
                             !.flushes = 0,
                             !.prePending = pending, !.prePairCount = pair_count,
                             !.preRemote = remote, !.preToken = token,
                             !.streak = 0, !.preStreak = last.streak,
                             !.preExpiry = token_expiry, !.at = now,
                             !.failed = FALSE, !.preFailed = last.failed]
              /\ pending' = IF g.raised THEN <<>> ELSE pending
              /\ pair_count' = IF g.raised THEN 0 ELSE pair_count
              /\ UNCHANGED <<pairs_to_flush, clock, now, remote, recorded,
                              lost_responses, tasks>>

GetLastNPairs(maxN, envs) ==
    GetLastNPairs_call(maxN, envs) /\ UNCHANGED tasks

\* ----------------------------------------------------------- session driver
\* on_conversation_item_added: the handler of an event is created as a task
\* (asyncio.create_task) and runs later
Roles == {"user", "assistant"}

Emit(maxEvents) ==
    /\ Len(tasks) < maxEvents
    /\ \E role \in Roles :
          tasks' = Append(tasks, [role |-> role, pc |-> "created", stamp |-> 0])
    /\ UNCHANGED <<pairs_to_flush, clock, pending, pair_count, token,
                   token_expiry, now, remote, recorded, lost_responses, last>>

\* variant: created tasks start in any order
Startable_any_order(ts) == {i \in 1..Len(ts) : ts[i].pc = "created"}

\* the event loop starts tasks in the order they were created
Startable(ts) ==
    {i \in 1..Len(ts) :
        ts[i].pc = "created" /\ \A j \in 1..(i - 1) : ts[j].pc # "created"}

\* async_handler up to its await: the turn is recorded in the cache
TaskRecord(maxEvents, envs, answers) ==
    \E i \in Startable(tasks) :
        /\ IF tasks[i].role = "user"
           THEN add_user_message_call(maxEvents)
           ELSE add_agent_message_call(maxEvents, envs, answers)
        /\ tasks' = [tasks EXCEPT ![i].pc = "awaiting", ![i].stamp = NextStamp]

\* async_handler after its await: update_context reads the last pairs
TaskRefresh(maxN, envs) ==
    \E i \in 1..Len(tasks) :
        /\ tasks[i].pc = "awaiting"
        /\ GetLastNPairs_call(maxN, envs)
        /\ tasks' = [tasks EXCEPT ![i].pc = "done"]

\* on_participant_disconnected: the cache is flushed
Disconnect(envs, answers) ==
    /\ Flush_call(envs, answers)
    /\ UNCHANGED tasks


\* The cache driven by record, flush and query calls against a store that
\* knows the identity and answers every request or fails it; the token does
\* not expire within the behaviour.
Next ==
    \/ add_user_message(MaxMsgs)
    \/ add_agent_message(MaxMsgs, PlainAuthEnvs, AnsweredOrFailed)
    \/ Flush(PlainAuthEnvs, AnsweredOrFailed)
    \/ GetLastNPairs(MaxN, PlainAuthEnvs)

Spec == Init /\ [][Next]_vars

\* The same cache against a store that can also store a batch and lose the
\* response, starting from an empty history.
MaxLostMsgs == 3
MaxLostN == 1

InitLost ==
    /\ Init
    /\ remote = <<>>

NextLost ==
    \/ add_user_message(MaxLostMsgs)
    \/ add_agent_message(MaxLostMsgs, PlainAuthEnvs, PostAnswers)
    \/ Flush(PlainAuthEnvs, PostAnswers)
    \/ GetLastNPairs(MaxLostN, PlainAuthEnvs)

SpecLost == InitLost /\ [][NextLost]_vars

\* The same cache against a store whose account endpoints answer in every
\* way, with the clock advancing past the token's expiry.
MaxAuthMsgs == 2
MaxAuthN == 1

InitAuth ==
    /\ Init
    /\ pairs_to_flush = 1
    /\ remote = <<>>

NextAuth ==
    \/ add_user_message(MaxAuthMsgs)
    \/ add_agent_message(MaxAuthMsgs, AuthEnvs, AnsweredOrFailed)
    \/ Flush(AuthEnvs, AnsweredOrFailed)
    \/ GetLastNPairs(MaxAuthN, AuthEnvs)
    \/ Tick(MaxTicks)

SpecAuth == InitAuth /\ [][NextAuth]_vars

\* The cache driven by the session driver: every conversation event gets
\* its own handler task, and a disconnect flushes the cache.
MaxTaskN == 1

NextTasks ==
    \/ Emit(MaxEvents)
    \/ TaskRecord(MaxEvents, PlainAuthEnvs, AnsweredOrFailed)
    \/ TaskRefresh(MaxTaskN, PlainAuthEnvs)
    \/ Disconnect(PlainAuthEnvs, AnsweredOrFailed)

InitTasks ==
    /\ Init
    /\ remote = <<>>

SpecTasks == InitTasks /\ [][NextTasks]_vars

TypeOK ==
    /\ pairs_to_flush \in 1..MaxThreshold
    /\ pair_count \in 0..MaxMsgs
    /\ Len(pending) <= MaxMsgs
    /\ lost_responses \in 0..MaxLost
    /\ token \in Tokens \cup {NoToken}

\* ------------------------------------------------------------ properties
IsPost(c) == c.kind = "post"
IsGet(c) == c.kind = "get"
IsAccount(c) == c.kind \in {"login", "register"}

Posts(calls) == SelectSeq(calls, IsPost)
Gets(calls) == SelectSeq(calls, IsGet)

\* the batch post of the last operation was acknowledged
PostAcknowledged == \E i \in 1..Len(last.calls) :
                        IsPost(last.calls[i]) /\ last.calls[i].status = "ok"

\* the history read of the last operation was answered
ReadAnswered == \E i \in 1..Len(last.calls) :
                    IsGet(last.calls[i]) /\ last.calls[i].status = "ok"

LocalPairs == extract_pairs_from_messages(last.prePending)

\* C1: a flush() of a non-empty buffer whose batch post fails leaves the
\* pending buffer and the pair counter as they were and returns [].
C1_FailedFlushKeepsState ==
    (last.op = "flush" /\ last.prePending # <<>> /\ ~PostAcknowledged)
        => /\ pending = last.prePending
           /\ pair_count = last.prePairCount
           /\ last.ret = <<>>

C1_Witness ==
    /\ last.op = "flush"
    /\ Len(last.prePending) >= 2
    /\ last.prePairCount >= 1
    /\ Len(Posts(last.calls)) = 1
    /\ Posts(last.calls)[1].status = "error"
    /\ lost_responses > 0

\* C2: a flush() of a non-empty buffer that the store accepts sends exactly
\* one batch post whose body is the whole buffer in order, and leaves the
\* buffer empty and the pair counter 0.
C2_AcceptedFlushSendsAllAndClears ==
    (last.op = "flush" /\ last.prePending # <<>> /\ PostAcknowledged)
        => /\ Len(Posts(last.calls)) = 1
           /\ Posts(last.calls)[1].body = last.prePending
           /\ remote = last.preRemote \o last.prePending
           /\ pending = <<>>
           /\ pair_count = 0

C2_Witness ==
    /\ last.op = "flush"
    /\ Len(last.prePending) >= 3
    /\ last.prePairCount >= 1
    /\ PostAcknowledged

\* the messages are user turn, agent turn, user turn, agent turn, ...
IsPairs(msgs) ==
    /\ Len(msgs) % 2 = 0
    /\ \A i \in 1..Len(msgs) :
          msgs[i].senderType = IF i % 2 = 1 THEN SenderUser ELSE SenderAgent

\* C3: after N complete user/agent pairs were recorded and nothing else was
\* done, with N below the threshold, no flush was triggered and the pending
\* buffer holds exactly the 2N recorded messages.
C3_BelowThresholdNoFlush ==
    (IsPairs(recorded) /\ Len(recorded) < 2 * pairs_to_flush /\ ~last.explicit)
        => /\ last.implicit = 0
           /\ pending = recorded
           /\ pair_count * 2 = Len(recorded)
           /\ Posts(last.calls) = <<>>

C3_Witness ==
    /\ IsPairs(recorded)
    /\ Len(recorded) = 4
    /\ pairs_to_flush > 2
    /\ ~last.explicit
    /\ last.op = "add_agent_message"

\* C4 as stated: the record-agent-turn call that brings the pair counter to
\* the threshold triggers exactly one flush, after which the pending buffer
\* is empty and the pair counter is 0.
C4_Original ==
    (/\ last.op = "add_agent_message" /\ IsPairs(recorded)
     /\ last.prePairCount + 1 = pairs_to_flush)
        => /\ last.flushes = 1
           /\ pending = <<>>
           /\ pair_count = 0

\* C4 amended: a record-agent-turn call that brings the pair counter to the
\* threshold or above triggers exactly one flush inside the call, with at
\* most one batch post; when the store acknowledges the batch the buffer is
\* empty and the counter 0, otherwise the buffer is the old buffer plus the
\* new turn and the counter is the old counter plus one.
C4_ThresholdFlushesOnce ==
    (last.op = "add_agent_message" /\ last.prePairCount + 1 >= pairs_to_flush)
        => /\ last.flushes = 1
           /\ Len(Posts(last.calls)) <= 1
           /\ PostAcknowledged => (pending = <<>> /\ pair_count = 0)
           /\ ~PostAcknowledged =>
                 /\ Len(pending) = Len(last.prePending) + 1
                 /\ SubSeq(pending, 1, Len(last.prePending)) = last.prePending
                 /\ pending[Len(pending)] = recorded[Len(recorded)]
                 /\ pair_count = last.prePairCount + 1

C4_Witness ==
    /\ last.op = "add_agent_message"
    /\ last.prePairCount + 1 = pairs_to_flush
    /\ pairs_to_flush >= 2
    /\ PostAcknowledged
    /\ pending = <<>>

\* C5: a history read issued by get_last_n_pairs(n) asks the store for at
\* most 2*(n - local_pairs) messages.
C5_ReadLimit ==
    last.op = "get_last_n_pairs"
        => \A i \in 1..Len(last.calls) :
              IsGet(last.calls[i])
                  => last.calls[i].limit <= 2 * (last.n - Len(LocalPairs))

\* C6: get_last_n_pairs(n) makes no remote call when the pending buffer
\* alone yields at least n pairs, and returns the last n local pairs.
C6_LocalOnly ==
    (last.op = "get_last_n_pairs" /\ Len(LocalPairs) >= last.n)
        => /\ last.calls = <<>>
           /\ ~last.raised
           /\ last.ret = LastK(LocalPairs, last.n)

\* the pairs of the whole conversation: the stored history in creation
\* order followed by the pending buffer
AllPairs == extract_pairs_from_messages(SortByCreatedAt(last.preRemote)
                                        \o last.prePending)

\* C7: for n >= 1, when the history read succeeds get_last_n_pairs(n)
\* returns the n most recent pairs of the stored history followed by the
\* pending buffer.
C7_MostRecentPairs ==
    (last.op = "get_last_n_pairs" /\ last.n >= 1 /\ ReadAnswered)
        => last.ret = LastK(AllPairs, last.n)

\* C8: get_last_n_pairs(n) returns at most n entries, for every n >= 0.
C8_AtMostN ==
    last.op = "get_last_n_pairs" => Len(last.ret) <= last.n

\* C9: with exactly two pairs in the stored history and one pair in the
\* pending buffer, get_last_n_pairs(3) returns the two stored pairs followed
\* by the local pair, for every flush threshold.
C9_ConcatenationOrder ==
    (/\ last.op = "get_last_n_pairs" /\ last.n = 3 /\ ReadAnswered
     /\ Len(last.preRemote) = 4 /\ IsPairs(SortByCreatedAt(last.preRemote))
     /\ Len(last.prePending) = 2 /\ IsPairs(last.prePending))
        => last.ret = extract_pairs_from_messages(SortByCreatedAt(last.preRemote))
                      \o LocalPairs

\* the pair made of the last two recorded messages
LastRecordedPair ==
    <<[user |-> recorded[Len(recorded) - 1].content,
       bot |-> recorded[Len(recorded)].content]>>

\* C10 as stated: a record-user-turn, a record-agent-turn and then
\* get_last_n_pairs(1) returns that pair and makes no remote call.
C10_Original ==
    (last.op = "get_last_n_pairs" /\ last.n = 1 /\ last.preStreak = 2)
        => /\ last.ret = LastRecordedPair
           /\ last.calls = <<>>
           /\ ~last.raised

\* C10 amended: the round trip returns the pair without a remote call
\* whenever the record-agent-turn call left the pair in the pending buffer
\* (the threshold was not reached, or the flush it triggered failed); when
\* that call flushed the pair, get_last_n_pairs(1) goes to the store.
C10_RoundTrip ==
    (last.op = "get_last_n_pairs" /\ last.n = 1 /\ last.preStreak = 2)
        => IF pending # <<>>
           THEN /\ last.ret = LastRecordedPair
                /\ last.calls = <<>>
                /\ ~last.raised
           ELSE last.calls # <<>>

C10_Witness ==
    /\ last.op = "get_last_n_pairs"
    /\ last.n = 1
    /\ last.preStreak = 2
    /\ Len(pending) >= 3
    /\ last.ret = LastRecordedPair

\* the positions of msgs where a user turn is directly followed by an
\* agent turn
Adjacent(msgs) ==
    {i \in 1..(Len(msgs) - 1) :
        msgs[i].senderType = SenderUser /\ msgs[i + 1].senderType = SenderAgent}

\* the pairs at those positions, in order of position
RECURSIVE PairsAt(_, _)
PairsAt(msgs, positions) ==
    IF positions = {} THEN <<>>
    ELSE LET i == CHOOSE p \in positions : \A q \in positions : p <= q
         IN  <<[user |-> msgs[i].content, bot |-> msgs[i + 1].content]>>
             \o PairsAt(msgs, positions \ {i})

\* C11: the pair counter equals the number of complete pairs (a USER message
\* directly followed by an AGENT message) in the pending buffer.
C11_CounterIsPairCount ==
    pair_count = Cardinality(Adjacent(pending))

\* C12: pair extraction yields, in order, exactly the pairs at the positions
\* where a USER message is directly followed by an AGENT message; a message
\* is in at most one pair, and [USER a, USER b, AGENT c] yields [{b, c}].
C12_ExtractionIsAdjacencyScan ==
    /\ extract_pairs_from_messages(pending) = PairsAt(pending, Adjacent(pending))
    /\ extract_pairs_from_messages(remote) = PairsAt(remote, Adjacent(remote))
    /\ \A i \in Adjacent(pending) : i + 1 \notin Adjacent(pending)
    /\ (/\ Len(pending) = 3
        /\ pending[1].senderType = SenderUser
        /\ pending[2].senderType = SenderUser
        /\ pending[3].senderType = SenderAgent)
           => extract_pairs_from_messages(pending)
                  = <<[user |-> pending[2].content, bot |-> pending[3].content]>>

C12_Witness ==
    /\ Len(pending) = 3
    /\ pending[1].senderType = SenderUser
    /\ pending[2].senderType = SenderUser
    /\ pending[3].senderType = SenderAgent
    /\ Len(extract_pairs_from_messages(pending)) = 1

\* the last operation tried to authenticate and did not get a token
AuthFailed == last.calls # <<>> /\ IsAccount(last.calls[Len(last.calls)])

\* some batch post of the last operation starts with the messages the
\* buffer held before it
PostsRetained ==
    \E i \in 1..Len(last.calls) :
        /\ IsPost(last.calls[i])
        /\ Len(last.calls[i].body) >= Len(last.prePending)
        /\ SubSeq(last.calls[i].body, 1, Len(last.prePending)) = last.prePending

\* C13 as stated: the record-agent-turn call or the get_last_n_pairs query
\* that follows a failed flush issues a batch post containing the retained
\* messages (authentication permitting).
C13_Original ==
    (/\ last.preFailed
     /\ last.op \in {"add_agent_message", "get_last_n_pairs"}
     /\ ~AuthFailed)
        => PostsRetained

\* C13 amended: after a failed flush the retained messages are sent again by
\* the next flush only.  A record-agent-turn call whose incremented counter
\* is at or above the threshold, and an explicit flush(), issue one batch
\* post that starts with the retained messages once authentication succeeds;
\* a failed threshold flush leaves the counter at or above the threshold, so
\* the next record-agent-turn call flushes again; get_last_n_pairs never
\* issues a batch post.
C13_RetryOnNextFlush ==
    /\ last.op = "get_last_n_pairs" => Posts(last.calls) = <<>>
    /\ (/\ last.preFailed
        /\ \/ last.op = "flush"
           \/ last.op = "add_agent_message"
              /\ last.prePairCount + 1 >= pairs_to_flush)
           => /\ last.flushes = 1
              /\ last.prePending # <<>>
              /\ ~AuthFailed => (Len(Posts(last.calls)) = 1 /\ PostsRetained)
    /\ (last.op = "add_agent_message" /\ last.failed)
           => pair_count >= pairs_to_flush

C13_Witness ==
    /\ last.preFailed
    /\ last.op = "add_agent_message"
    /\ Len(last.prePending) >= 2
    /\ PostAcknowledged
    /\ PostsRetained

\* C14: no operation of the cache ends with an error visible to its caller,
\* whatever the remote store answers.
C14_FailuresAbsorbed ==
    ~last.raised

\* C15: an operation in which authentication fails ends with an error for
\* its caller, for flush as well as for get_last_n_pairs.
C15_AuthFailureSurfaced ==
    (AuthFailed /\ last.op \in {"flush", "add_agent_message", "get_last_n_pairs"})
        => last.raised

AccountCalls == SelectSeq(last.calls, IsAccount)

\* the cached token was usable when the last operation started
HadValidToken == last.preToken # NoToken /\ last.at < last.preExpiry

\* C16: an authentication without a valid cached token issues a login; a
\* registration follows only a 401 answer to it, a second login follows only
\* a successful registration; there are never more than two logins and one
\* registration, and a failed second login ends the operation without a
\* token and without another registration.
C16_LoginRegisterLogin ==
    LET a == AccountCalls
    IN  /\ Len(a) <= 3
        /\ a = SubSeq(last.calls, 1, Len(a))
        /\ (last.calls # <<>> /\ ~HadValidToken) => Len(a) >= 1
        /\ Len(a) >= 1 => a[1].kind = "login"
        /\ Len(a) = 1 => a[1].status # "unauthorized"
        /\ Len(a) >= 2 => (a[1].status = "unauthorized" /\ a[2].kind = "register")
        /\ Len(a) = 2 => a[2].status # "ok"
        /\ Len(a) = 3 => (a[2].status = "ok" /\ a[3].kind = "login")
        /\ (Len(a) = 3 /\ a[3].status # "ok")
               => /\ last.calls = a
                  /\ token = last.preToken
                  /\ token_expiry = last.preExpiry

C16_Witness ==
    /\ Len(AccountCalls) = 3
    /\ AccountCalls[3].status = "unauthorized"
    /\ last.op = "get_last_n_pairs"
    /\ last.raised

\* C17: while the cached token's local expiry has not elapsed, an operation
\* issues no login and no register call, and each of its post-messages and
\* get-history requests carries the cached token.
C17_TokenReusedUntilExpiry ==
    HadValidToken
        => /\ AccountCalls = <<>>
           /\ \A i \in 1..Len(last.calls) : last.calls[i].token = last.preToken
           /\ token = last.preToken
           /\ token_expiry = last.preExpiry

C17_Witness ==
    /\ HadValidToken
    /\ last.at > TickStep
    /\ last.op = "get_last_n_pairs"
    /\ ReadAnswered
    /\ last.calls[1].token = last.preToken

\* C18: flush() on an empty pending buffer makes no remote call, leaves the
\* buffer, the pair counter and the token as they were, and returns [].
C18_EmptyFlushIsNoOp ==
    (last.op = "flush" /\ last.prePending = <<>>)
        => /\ last.calls = <<>>
           /\ last.ret = <<>>
           /\ ~last.raised
           /\ pending = <<>>
           /\ pair_count = last.prePairCount
           /\ token = last.preToken
           /\ token_expiry = last.preExpiry
           /\ remote = last.preRemote

C18_Witness ==
    /\ last.op = "flush"
    /\ last.prePending = <<>>
    /\ last.preRemote # <<>>
    /\ Len(recorded) >= 2

\* C19: a get_last_n_pairs whose history read fails (the read itself or the
\* authentication before it) leaves the pending buffer and the pair counter
\* as they were.
C19_FailedReadKeepsBuffer ==
    (last.op = "get_last_n_pairs" /\ last.raised)
        => /\ pending = last.prePending
           /\ pair_count = last.prePairCount

C19_Witness ==
    /\ last.op = "get_last_n_pairs"
    /\ last.raised
    /\ Len(Gets(last.calls)) = 1
    /\ Len(pending) >= 2
    /\ pair_count >= 1

\* the handler task whose first part recorded the message
EventOf(m) == CHOOSE i \in 1..Len(tasks) : tasks[i].stamp = m.createdAt

InEmissionOrder(msgs) ==
    \A j, k \in 1..Len(msgs) : j < k => EventOf(msgs[j]) < EventOf(msgs[k])

Started == {i \in 1..Len(tasks) : tasks[i].pc # "created"}

\* C20: with one detached handler task per conversation event, the recorded
\* messages are one per started handler, with the sender of its event, and
\* the pending buffer holds them in the order the events were emitted: it is
\* the tail of the recorded messages left since the last successful flush.
C20_BufferInEmissionOrder ==
    /\ Len(recorded) = Cardinality(Started)
    /\ \A k \in 1..Len(recorded) :
          /\ \E i \in Started : tasks[i].stamp = recorded[k].createdAt
          /\ recorded[k].senderType
                 = IF tasks[EventOf(recorded[k])].role = "user"
                   THEN SenderUser ELSE SenderAgent
    /\ InEmissionOrder(recorded)
    /\ InEmissionOrder(pending)
    /\ Len(pending) <= Len(recorded)
    /\ pending = SubSeq(recorded, Len(recorded) - Len(pending) + 1, Len(recorded))

C20_Witness ==
    /\ Len(pending) = 3
    /\ \E i, j \in 1..Len(tasks) :
          i < j /\ tasks[i].pc = "awaiting" /\ tasks[j].pc = "done"
    /\ last.op = "get_last_n_pairs"

\* the number of records the store holds for message m
TimesStored(m) == Cardinality({i \in 1..Len(remote) : remote[i] = m})

\* C21: every recorded message is stored in the remote store at most once,
\* whatever record and flush operations were done, also when a batch post was
\* applied by the store and its response was lost or unreadable.
C21_StoredAtMostOnce ==
    \A k \in 1..Len(recorded) : TimesStored(recorded[k]) <= 1

InPending(m) == \E i \in 1..Len(pending) : pending[i] = m

\* C22: every message recorded by the cache is still in the pending buffer
\* or is held by the remote store, after any sequence of record, flush
\* (acknowledged, failed or applied without a response) and get_last_n_pairs
\* operations.
C22_NoMessageDropped ==
    \A k \in 1..Len(recorded) :
        InPending(recorded[k]) \/ TimesStored(recorded[k]) >= 1

C22_Witness ==
    /\ last.op = "flush"
    /\ last.failed
    /\ ~PostAcknowledged
    /\ Len(Posts(last.calls)) = 1
    /\ Len(recorded) = 3
    /\ \E k \in 1..Len(recorded) :
          ~InPending(recorded[k]) /\ TimesStored(recorded[k]) >= 1
    /\ \E k \in 1..Len(recorded) :
          InPending(recorded[k]) /\ TimesStored(recorded[k]) = 0

\* the number of AGENT messages among msgs
AgentMessages(msgs) ==
    Cardinality({i \in 1..Len(msgs) : msgs[i].senderType = SenderAgent})

\* C23: the pair counter is the number of AGENT messages in the pending
\* buffer, and from a failed threshold-triggered flush until a flush succeeds
\* the counter is at or above the threshold.
C23_CounterIsAgentCount ==
    /\ pair_count = AgentMessages(pending)
    /\ last.thresholdFailed => pair_count >= pairs_to_flush

C23_Witness ==
    /\ pairs_to_flush = 2
    /\ last.thresholdFailed
    /\ last.op = "add_agent_message"
    /\ last.preFailed
    /\ last.failed
    /\ Len(pending) = 4
    /\ pending[1].senderType = SenderUser
    /\ pair_count = 3

====
